---- MODULE Spec2Model ----
(***************************************************************************)
(* Model of the ioprocess Python client (bindings/python/ioprocess):       *)
(* the IOProcess facade (_sendCommand, _pingPoller, close, __del__, _run,  *)
(* _startCommunication), the communication thread _communicate with its    *)
(* poll loop, ResponseReader and DataSender, and the worker process seen   *)
(* through its pipes.                                                      *)
(***************************************************************************)
EXTENDS Integers, Sequences, FiniteSets, TLC

\* ---------------------------------------------------------------- bounds
NCallers == 2          \* caller threads, each issuing one _sendCommand
NClosers == 2          \* explicit close() calls (closer 0 is __del__)
MaxGen == 2            \* worker generations spawned over the client's life
ReqLen == 2            \* size of one serialized request, in write units
MaxLog == 4            \* length of the diagnostic stream fed to _processLogs
WidePipe == 8          \* a wakeup pipe with more room than bytes are ever written
NarrowPipe == 1        \* a wakeup pipe that the callers at hand can fill

\* ------------------------------------------------------ program constants
ERR_IOPROCESS_CRASH == 100001
EAGAIN == 11
NoErrcode == -1        \* response dict without an 'errcode' key

Callers == 1 .. NCallers
Closers == 0 .. NClosers
Gens == 1 .. MaxGen
Errcodes == {NoErrcode, 0, EAGAIN}

VARIABLES
    isRunning,         \* IOProcess._isRunning
    clientAlive,       \* the IOProcess object is not reclaimed (ioproc_ref() is not None)
    lock,              \* IOProcess._lock: 0 free, g held by generation g's thread
    commthread,        \* IOProcess._commthread / _pid: the newest generation
    eventFdReciever,   \* IOProcess._eventFdReciever is open
    eventFdSender,     \* IOProcess._eventFdSender is open
    wakeup,            \* bytes buffered in the wakeup pipe
    commandQueue,      \* IOProcess._commandQueue: sequence of callers (their CmdResult)
    reqId,             \* IOProcess._reqId
    cpc,               \* caller position inside _sendCommand
    cres,              \* caller's CmdResult: event and result
    cout,              \* what _sendCommand returned or raised
    sentAs,            \* <<generation, id>> under which the caller's command was serialized
    afterClose,        \* the caller entered _sendCommand after a close() call had returned
    clpc,              \* position of each close() call
    clsync,            \* the sync argument of each close() call
    epc,               \* position of each generation's _communicate thread
    eref,              \* the thread's local real_ioproc holds the client
    pollres,           \* events of the current pollres still to be handled
    pendingRequests,   \* _communicate local: set of <<id, caller>>
    dataSender,        \* _communicate local: DataSender or None
    pollOut,           \* writePipe registered with OUTPUT_READY_FLAGS
    evtReciever,       \* the thread's dup of _eventFdReciever is open
    exitPath,          \* how the thread left the try body
    wstate,            \* worker process: "none", "running", "exited", "reaped"
    wreq,              \* request ids the worker has read and not answered
    respPipe,          \* frames in the response pipe, oldest first
    reqPipe,           \* units written to the request pipe: <<id, offset>>
    logStream,         \* the bytes the worker writes to its stdout, in all
    logIn,             \* the part of logStream not yet read by the thread
    errIn,             \* the bytes on the worker's stderr not yet read
    partialLogs,       \* IOProcess._partialLogs
    logRecords,        \* the lines the loop of _processLogs took, in order
    logSink,           \* what was logged for them: <<"warning" or "sublog", line>>
    wakeupCap,         \* bytes the wakeup pipe holds before a write to it blocks
    procPipes          \* proc.stdout and proc.stderr of each worker's handle

clientVars == <<isRunning, clientAlive, lock, commthread,
                eventFdReciever, eventFdSender, wakeup, commandQueue, reqId>>
callerVars == <<cpc, cres, cout, sentAs, afterClose>>
closeVars == <<clpc, clsync>>
engineVars == <<epc, eref, pollres, pendingRequests, dataSender, pollOut,
                evtReciever, exitPath>>
workerVars == <<wstate, wreq, respPipe, reqPipe>>
logVars == <<logStream, logIn, errIn, partialLogs, logRecords, logSink>>
progVars == <<clientVars, callerVars, closeVars, engineVars, workerVars>>
vars == <<progVars, logVars, wakeupCap, procPipes>>

\* ------------------------------------------------------------- data
\* CmdResult.__init__: event cleared, result None
NoResult == [set |-> FALSE, has |-> FALSE, id |-> 0, errcode |-> NoErrcode]
\* a completion that has not stored the result when it sets the event
StoredLater(r, i, e) == r

\* pendingReq.result = res (line 140), request.result = {...} (line 173): the
\* CmdResult holds the result of id i with errcode e
Stored(r, i, e) == [r EXCEPT !.has = TRUE, !.id = i, !.errcode = e]

\* pendingReq.event.set() (line 141), request.event.set() (line 175)
EventSet(r) == [r EXCEPT !.set = TRUE]

\* a CmdResult completed by the except clause of _communicate: the crash dict
\* stored, then the event set
CrashResult == EventSet(Stored(NoResult, 0, ERR_IOPROCESS_CRASH))
NoSender == [active |-> FALSE, id |-> 0, left |-> 0]
NoOutcome == [kind |-> "none", code |-> 0]

ClientInit ==
    /\ isRunning = TRUE
    /\ clientAlive = TRUE
    /\ lock = 0
    /\ commthread = 1
    /\ eventFdReciever = TRUE
    /\ eventFdSender = TRUE
    /\ wakeup = 0
    /\ commandQueue = <<>>
    /\ reqId = 0
    /\ cpc = [c \in Callers |-> "idle"]
    /\ cres = [c \in Callers |-> NoResult]
    /\ cout = [c \in Callers |-> NoOutcome]
    /\ sentAs = [c \in Callers |-> <<0, 0>>]
    /\ afterClose = [c \in Callers |-> FALSE]
    /\ clpc = [k \in Closers |-> "idle"]
    /\ clsync = [k \in Closers |-> FALSE]
    /\ epc = [g \in Gens |-> IF g = 1 THEN "start" ELSE "none"]
    /\ eref = [g \in Gens |-> FALSE]
    /\ pollres = [g \in Gens |-> {}]
    /\ pendingRequests = [g \in Gens |-> {}]
    /\ dataSender = [g \in Gens |-> NoSender]
    /\ pollOut = [g \in Gens |-> FALSE]
    /\ evtReciever = [g \in Gens |-> FALSE]
    /\ exitPath = [g \in Gens |-> "none"]
    /\ wstate = [g \in Gens |-> IF g = 1 THEN "running" ELSE "none"]
    /\ wreq = [g \in Gens |-> {}]
    /\ respPipe = [g \in Gens |-> <<>>]
    /\ reqPipe = [g \in Gens |-> <<>>]
    /\ procPipes = [g \in Gens |-> IF g = 1 THEN "open" ELSE "none"]

\* the worker has logged nothing
LogIdle ==
    /\ logStream = <<>>
    /\ logIn = <<>>
    /\ errIn = <<>>
    /\ partialLogs = <<>>
    /\ logRecords = <<>>
    /\ logSink = <<>>

Init == ClientInit /\ LogIdle /\ wakeupCap = WidePipe

\* the same client with a wakeup pipe that can be filled (os.pipe() gives a
\* blocking pipe of fixed size, here scaled down to the number of callers)
NarrowInit == ClientInit /\ LogIdle /\ wakeupCap = NarrowPipe

\* the wakeup pipe still has a read end: the client's or some thread's dup
WakeupHasReader == eventFdReciever \/ \E g \in Gens : evtReciever[g]

\* os.write(self._eventFdSender, b'0') succeeds
PingWrites == eventFdSender /\ WakeupHasReader

\* the wakeup pipe has room for one more byte: the sender is a blocking
\* descriptor, so without room os.write waits until the reader has taken one
PingRoom == wakeup < wakeupCap

\* some close() call of the application has returned
CloseReturned == \E k \in Closers : clpc[k] = "done"

\* ------------------------------------------------------------ _sendCommand
\* a put that takes the next request id for the command it enqueues
SendCommandPutWithId(c) ==
    /\ cpc[c] = "idle"
    /\ clientAlive
    /\ \A d \in Callers : d < c => cpc[d] # "idle"
    /\ commandQueue' = Append(commandQueue, c)
    /\ reqId' = reqId + 1
    /\ cpc' = [cpc EXCEPT ![c] = "ping"]
    /\ afterClose' = [afterClose EXCEPT ![c] = CloseReturned]
    /\ UNCHANGED <<isRunning, clientAlive, lock, commthread,
                   eventFdReciever, eventFdSender, wakeup>>
    /\ UNCHANGED <<cres, cout, sentAs>>
    /\ UNCHANGED <<closeVars, engineVars, workerVars>>
    /\ UNCHANGED <<logVars, wakeupCap, procPipes>>

\* res = CmdResult(); self._commandQueue.put(((cmdName, args), res))
SendCommandPut(c) ==
    /\ cpc[c] = "idle"
    /\ clientAlive
    /\ \A d \in Callers : d < c => cpc[d] # "idle"
    /\ commandQueue' = Append(commandQueue, c)
    /\ cpc' = [cpc EXCEPT ![c] = "ping"]
    /\ afterClose' = [afterClose EXCEPT ![c] = CloseReturned]
    /\ UNCHANGED <<isRunning, clientAlive, lock, commthread,
                   eventFdReciever, eventFdSender, wakeup, reqId>>
    /\ UNCHANGED <<cres, cout, sentAs>>
    /\ UNCHANGED <<closeVars, engineVars, workerVars>>
    /\ UNCHANGED <<logVars, wakeupCap, procPipes>>

\* self._pingPoller(): the write succeeds, or it fails on the closed
\* descriptor and Closed is raised because _isRunning is False
SendCommandPing(c) ==
    /\ cpc[c] = "ping"
    /\ PingWrites \/ ~isRunning
    /\ IF PingWrites
          THEN /\ PingRoom
               /\ wakeup' = wakeup + 1
               /\ cpc' = [cpc EXCEPT ![c] = "wait"]
               /\ cout' = cout
          ELSE /\ wakeup' = wakeup
               /\ cpc' = [cpc EXCEPT ![c] = "done"]
               /\ cout' = [cout EXCEPT ![c] = [kind |-> "closed", code |-> 0]]
    /\ UNCHANGED <<isRunning, clientAlive, lock, commthread,
                   eventFdReciever, eventFdSender, commandQueue, reqId>>
    /\ afterClose' = [afterClose EXCEPT ![c] = FALSE]
    /\ UNCHANGED <<cres, sentAs>>
    /\ UNCHANGED <<closeVars, engineVars, workerVars>>
    /\ UNCHANGED <<logVars, wakeupCap, procPipes>>

\* a timeout that cancels: the caller's entry is taken out of every table
SendCommandTimeoutCancels(c) ==
    /\ cpc[c] = "wait"
    /\ ~cres[c].set
    /\ cpc' = [cpc EXCEPT ![c] = "done"]
    /\ cout' = [cout EXCEPT ![c] = [kind |-> "timeout", code |-> 0]]
    /\ pendingRequests' = [g \in Gens |->
                             {e \in pendingRequests[g] : e[2] # c}]
    /\ UNCHANGED <<cres, sentAs, afterClose>>
    /\ UNCHANGED <<epc, eref, pollres, dataSender, pollOut, evtReciever, exitPath>>
    /\ UNCHANGED <<clientVars, closeVars, workerVars>>
    /\ UNCHANGED <<logVars, wakeupCap, procPipes>>

\* res.event.wait(timeout) ran out: raise Timeout; nothing else is touched
SendCommandTimeout(c) ==
    /\ cpc[c] = "wait"
    /\ ~cres[c].set
    /\ cpc' = [cpc EXCEPT ![c] = "done"]
    /\ cout' = [cout EXCEPT ![c] = [kind |-> "timeout", code |-> 0]]
    /\ UNCHANGED <<cres, sentAs, afterClose>>
    /\ UNCHANGED <<clientVars, closeVars, engineVars, workerVars>>
    /\ UNCHANGED <<logVars, wakeupCap, procPipes>>

\* a _sendCommand that never looks at errcode
OutcomeIgnoringErrcode(r) == [kind |-> "ok", code |-> 0]

\* what _sendCommand does with a stored result: OSError(errcode) when
\* res.result.get('errcode', 0) != 0, else the result
OutcomeOf(r) ==
    IF r.errcode # NoErrcode /\ r.errcode # 0
       THEN [kind |-> "oserror", code |-> r.errcode]
       ELSE [kind |-> "ok", code |-> 0]

\* the event was set: examine res.result and leave _sendCommand; the
\* CmdResult, which no table holds any more once the thread that completed
\* it has ended, goes with the caller's frame
SendCommandReturn(c) ==
    /\ cpc[c] = "wait"
    /\ cres[c].set
    /\ cpc' = [cpc EXCEPT ![c] = "done"]
    /\ cout' = [cout EXCEPT ![c] = OutcomeOf(cres[c])]
    /\ cres' = [cres EXCEPT ![c] = NoResult]
    /\ sentAs' = [sentAs EXCEPT ![c] = <<0, 0>>]
    /\ afterClose' = afterClose
    /\ UNCHANGED <<clientVars, closeVars, engineVars, workerVars>>
    /\ UNCHANGED <<logVars, wakeupCap, procPipes>>

\* -------------------------------------------------------------------- close
\* a close() that does not test the flag: every call goes on to ping and close
CloseFlagUntested(k, sync) ==
    /\ lock = 0
    /\ clsync' = [clsync EXCEPT ![k] = sync]
    /\ isRunning' = FALSE
    /\ clpc' = [clpc EXCEPT ![k] = "ping"]

\* with self._lock: if not self._isRunning: return; self._isRunning = False
\* (the flag test and update of close(), given that the lock is free)
CloseFlag(k, sync) ==
    /\ lock = 0
    /\ clsync' = [clsync EXCEPT ![k] = sync]
    /\ IF isRunning
          THEN /\ isRunning' = FALSE
               /\ clpc' = [clpc EXCEPT ![k] = "ping"]
          ELSE /\ isRunning' = isRunning
               /\ clpc' = [clpc EXCEPT ![k] = "done"]

\* an explicit close(sync) call by a thread of the application
CloseCall(k, sync) ==
    /\ k # 0
    /\ clpc[k] = "idle"
    /\ clientAlive
    /\ \A j \in Closers : (0 < j /\ j < k) => clpc[j] # "idle"
    /\ CloseFlag(k, sync)
    /\ UNCHANGED <<clientAlive, lock, commthread,
                   eventFdReciever, eventFdSender, wakeup, commandQueue, reqId>>
    /\ UNCHANGED <<callerVars, engineVars, workerVars>>
    /\ UNCHANGED <<logVars, wakeupCap, procPipes>>

\* no thread of the application is inside a method of the client and no
\* communication thread holds it in real_ioproc
NoStrongRef ==
    /\ \A c \in Callers : cpc[c] \in {"idle", "done"}
    /\ \A k \in Closers : clpc[k] \in {"idle", "done"}
    /\ \A g \in Gens : ~eref[g]

\* the last reference is dropped: the weak reference dies and __del__ runs
\* close(False)
Reclaim ==
    /\ clientAlive
    /\ NoStrongRef
    /\ clientAlive' = FALSE
    /\ CloseFlag(0, FALSE)
    /\ UNCHANGED <<lock, commthread,
                   eventFdReciever, eventFdSender, wakeup, commandQueue, reqId>>
    /\ UNCHANGED <<callerVars, engineVars, workerVars>>
    /\ UNCHANGED <<logVars, wakeupCap, procPipes>>

\* close(): self._pingPoller()
ClosePing(k) ==
    /\ clpc[k] = "ping"
    /\ PingWrites
    /\ PingRoom
    /\ wakeup' = wakeup + 1
    /\ clpc' = [clpc EXCEPT ![k] = "closeFds"]
    /\ UNCHANGED <<isRunning, clientAlive, lock, commthread,
                   eventFdReciever, eventFdSender, commandQueue, reqId>>
    /\ UNCHANGED <<clsync, callerVars, engineVars, workerVars>>
    /\ UNCHANGED <<logVars, wakeupCap, procPipes>>

\* close(): os.close(self._eventFdReciever); os.close(self._eventFdSender);
\* without sync the call returns
CloseFds(k) ==
    /\ clpc[k] = "closeFds"
    /\ eventFdReciever' = FALSE
    /\ eventFdSender' = FALSE
    /\ clpc' = [clpc EXCEPT ![k] = IF clsync[k] THEN "join" ELSE "done"]
    /\ UNCHANGED <<isRunning, clientAlive, lock, commthread,
                   wakeup, commandQueue, reqId>>
    /\ UNCHANGED <<clsync, callerVars, engineVars, workerVars>>
    /\ UNCHANGED <<logVars, wakeupCap, procPipes>>

\* close(): self._commthread.join() returns once that thread has ended
CloseJoin(k) ==
    /\ clpc[k] = "join"
    /\ epc[commthread] = "dead"
    /\ clpc' = [clpc EXCEPT ![k] = "done"]
    /\ UNCHANGED <<clsync, clientVars, callerVars, engineVars, workerVars>>
    /\ UNCHANGED <<logVars, wakeupCap, procPipes>>

\* ------------------------------------------------------------- _communicate
\* the events poller.poll reports for generation g: a dead worker shows as
\* POLLHUP/POLLERR on its pipes, which masks POLLIN and POLLOUT on them
Ready(g) ==
    (IF wstate[g] # "running" THEN {"hup"} ELSE {})
    \cup (IF wstate[g] = "running" /\ g = commthread /\ logIn # <<>>
             THEN {"log"} ELSE {})
    \cup (IF wstate[g] = "running" /\ respPipe[g] # <<>> THEN {"resp"} ELSE {})
    \cup (IF wstate[g] = "running" /\ pollOut[g] THEN {"write"} ELSE {})
    \cup (IF wakeup > 0 THEN {"wake"} ELSE {})

\* the thread's locals once its frame is gone
ThreadEnds(g) ==
    /\ epc' = [epc EXCEPT ![g] = "dead"]
    /\ eref' = [eref EXCEPT ![g] = FALSE]
    /\ pollres' = [pollres EXCEPT ![g] = {}]
    /\ pendingRequests' = [pendingRequests EXCEPT ![g] = {}]
    /\ dataSender' = [dataSender EXCEPT ![g] = NoSender]
    /\ pollOut' = [pollOut EXCEPT ![g] = FALSE]
    /\ exitPath' = [exitPath EXCEPT ![g] = "none"]

\* proc is a local of _communicate and is closed by nothing: its stdout and
\* stderr stay open until the frame of the thread is gone and the handle is
\* collected
Collected(g) ==
    procPipes' = [procPipes EXCEPT ![g] = IF epc'[g] = "dead" THEN "closed" ELSE @]

\* lines 79-107: resolve the weak reference (return when the client is gone),
\* set _started, dup the wakeup receiver (return through finally when it is
\* closed), register the descriptors and enter the loop
CommStart(g) ==
    /\ epc[g] = "start"
    /\ IF ~clientAlive
          THEN /\ ThreadEnds(g)
               /\ UNCHANGED <<evtReciever>>
          ELSE /\ IF eventFdReciever
                     THEN /\ evtReciever' = [evtReciever EXCEPT ![g] = TRUE]
                          /\ epc' = [epc EXCEPT ![g] = "poll"]
                          /\ eref' = [eref EXCEPT ![g] = FALSE]
                          /\ exitPath' = exitPath
                     ELSE /\ evtReciever' = evtReciever
                          /\ epc' = [epc EXCEPT ![g] = "finally"]
                          /\ eref' = [eref EXCEPT ![g] = TRUE]
                          /\ exitPath' = [exitPath EXCEPT ![g] = "return"]
               /\ UNCHANGED <<pollres, pendingRequests, dataSender, pollOut>>
    /\ UNCHANGED <<isRunning, clientAlive, lock, commthread,
                   eventFdReciever, eventFdSender, wakeup, commandQueue, reqId>>
    /\ UNCHANGED <<callerVars, closeVars, workerVars>>
    /\ UNCHANGED <<logVars, wakeupCap>>
    /\ Collected(g)

\* lines 110-120: real_ioproc = None; poll; resolve the weak reference again;
\* break when the client is gone or not running; else handle pollres
CommPoll(g) ==
    /\ epc[g] = "poll"
    /\ IF ~clientAlive \/ ~isRunning
          THEN /\ epc' = [epc EXCEPT ![g] = "finally"]
               /\ eref' = [eref EXCEPT ![g] = clientAlive]
               /\ exitPath' = [exitPath EXCEPT ![g] = "break"]
               /\ pollres' = pollres
          ELSE /\ Ready(g) # {}
               /\ epc' = [epc EXCEPT ![g] = "dispatch"]
               /\ eref' = [eref EXCEPT ![g] = TRUE]
               /\ pollres' = [pollres EXCEPT ![g] = Ready(g)]
               /\ exitPath' = exitPath
    /\ UNCHANGED <<pendingRequests, dataSender, pollOut, evtReciever>>
    /\ UNCHANGED <<clientVars, callerVars, closeVars, workerVars>>
    /\ UNCHANGED <<logVars, wakeupCap, procPipes>>

\* a loop that keeps real_ioproc across the poll
NextEventKeepsRef(g, ev) ==
    /\ pollres' = [pollres EXCEPT ![g] = @ \ {ev}]
    /\ epc' = [epc EXCEPT ![g] = IF pollres[g] = {ev} THEN "poll" ELSE "dispatch"]
    /\ eref' = eref

\* after one event of pollres is handled: next event, or back to the top of
\* the loop, where real_ioproc is dropped
NextEvent(g, ev) ==
    /\ pollres' = [pollres EXCEPT ![g] = @ \ {ev}]
    /\ IF pollres[g] = {ev}
          THEN /\ epc' = [epc EXCEPT ![g] = "poll"]
               /\ eref' = [eref EXCEPT ![g] = FALSE]
          ELSE /\ epc' = [epc EXCEPT ![g] = "dispatch"]
               /\ eref' = eref

\* an exception leaves the for loop for the except clause
Raise(g) ==
    /\ epc' = [epc EXCEPT ![g] = "except"]
    /\ exitPath' = [exitPath EXCEPT ![g] = "raise"]
    /\ pollres' = [pollres EXCEPT ![g] = {}]
    /\ eref' = eref

\* a return statement inside the try body leaves for the finally clause
Return(g) ==
    /\ epc' = [epc EXCEPT ![g] = "finally"]
    /\ exitPath' = [exitPath EXCEPT ![g] = "return"]
    /\ pollres' = [pollres EXCEPT ![g] = {}]
    /\ eref' = eref

\* lines 123-126: event & ERROR_FLAGS: raise Exception("FD closed")
HandleError(g) ==
    /\ epc[g] = "dispatch"
    /\ "hup" \in pollres[g]
    /\ Raise(g)
    /\ UNCHANGED <<pendingRequests, dataSender, pollOut, evtReciever>>
    /\ UNCHANGED <<clientVars, callerVars, closeVars, workerVars>>
    /\ UNCHANGED <<logVars, wakeupCap, procPipes>>

\* a table that answers in send order: the oldest entry, whatever the id
PoppedOldest(tbl, id) == {e \in tbl : \A f \in tbl : e[1] <= f[1]}

\* a table that falls back on its oldest entry when the id is not there
PoppedOrOldest(tbl, id) ==
    IF \E e \in tbl : e[1] = id
       THEN {e \in tbl : e[1] = id}
       ELSE {e \in tbl : \A f \in tbl : e[1] <= f[1]}

\* pendingRequests.pop(reqId, None): the entries removed for a response id
PoppedFor(tbl, id) == {e \in tbl : e[1] = id}

\* a lookup that leaves the entry in the table (pendingRequests.get)
RemainingAll(tbl, hit) == tbl

\* pendingRequests.pop(reqId, None): the table without the entries taken out
Remaining(tbl, hit) == tbl \ hit

\* lines 136-146: res = responseReader.pop(); the entry of res['id'] is
\* removed, given the result and then its event set; an unknown id is only
\* logged.  A caller sees a CmdResult only through its event, so the two
\* writes are one step: between them the event is as it was before
Deliver(g, i, e) ==
    LET hit == PoppedFor(pendingRequests[g], i) IN
    /\ pendingRequests' = [pendingRequests EXCEPT ![g] = Remaining(@, hit)]
    /\ cres' = [c \in Callers |->
                  IF \E h \in hit : h[2] = c
                     THEN EventSet(Stored(cres[c], i, e))
                     ELSE cres[c]]

\* what one call of ResponseReader.process can find for the oldest frame of
\* the pipe: only the frame the worker wrote last can be there in part
FrameKinds(g) ==
    IF Len(respPipe[g]) = 1 THEN {"whole", "bad", "part", "hdr"}
                            ELSE {"whole", "bad"}

\* ResponseReader.process with _dataRemaining == 0, on the oldest frame of
\* the pipe, the answer to request Head(respPipe[g]): the header is read,
\* then one read of the body, which holds errcode e
\*   "whole": the body is all there: True, the response is delivered
\*   "bad"  : the body is all there and is not JSON: json.loads raises
\*   "part" : a part of the body is there: False, and _communicate returns
\*   "hdr"  : no body byte yet: the read is retried in place (EAGAIN)
HandleResponse(g, k, e) ==
    /\ epc[g] = "dispatch"
    /\ "resp" \in pollres[g]
    /\ k \in FrameKinds(g)
    /\ k # "whole" => e = 0
    /\ respPipe' = [respPipe EXCEPT ![g] = IF k = "hdr" THEN @ ELSE Tail(@)]
    /\ CASE k = "whole" -> /\ Deliver(g, Head(respPipe[g]), e)
                           /\ NextEvent(g, "resp")
                           /\ exitPath' = exitPath
         [] k = "bad"   -> /\ Raise(g)
                           /\ UNCHANGED <<pendingRequests, cres>>
         [] k = "part"  -> /\ Return(g)
                           /\ UNCHANGED <<pendingRequests, cres>>
         [] k = "hdr"   -> /\ epc' = [epc EXCEPT ![g] = "readbody"]
                           /\ UNCHANGED <<pendingRequests, cres, eref,
                                          pollres, exitPath>>
    /\ UNCHANGED <<dataSender, pollOut, evtReciever>>
    /\ UNCHANGED <<clientVars, cpc, cout, sentAs, afterClose, closeVars,
                   wstate, wreq, reqPipe>>
    /\ UNCHANGED <<logVars, wakeupCap, procPipes>>

\* ResponseReader.process, the retried body read after a header: the worker
\* has written all of the body ("whole") or a part of it ("part"), or the
\* worker is gone and the read returns no byte ("eof"); in the last two
\* cases process returns False and _communicate returns
ReadBody(g, k, e) ==
    /\ epc[g] = "readbody"
    /\ k \in (IF wstate[g] = "running" THEN {"whole", "part"} ELSE {"eof"})
    /\ k # "whole" => e = 0
    /\ respPipe' = [respPipe EXCEPT ![g] = Tail(@)]
    /\ IF k = "whole"
          THEN /\ Deliver(g, Head(respPipe[g]), e)
               /\ NextEvent(g, "resp")
               /\ exitPath' = exitPath
          ELSE /\ Return(g)
               /\ UNCHANGED <<pendingRequests, cres>>
    /\ UNCHANGED <<dataSender, pollOut, evtReciever>>
    /\ UNCHANGED <<clientVars, cpc, cout, sentAs, afterClose, closeVars,
                   wstate, wreq, reqPipe>>
    /\ UNCHANGED <<logVars, wakeupCap, procPipes>>

\* a counter that stays at its first value
_getRequestIdOnce(r) == IF r = 0 THEN 1 ELSE r

\* lines 401-403: self._reqId += 1; return self._reqId
_getRequestId(r) == r + 1

\* a wakeup that looks at the queue whether or not a sender is active
WakeIsNoopOnEmpty(ds, q) == q = <<>>

\* lines 150-156: `if dataSender: continue`, then get_nowait() raising Empty:
\* the wakeups after which nothing is dequeued
WakeIsNoop(ds, q) == ds.active \/ q = <<>>

\* lines 148-163: os.read(fd, 1); with no DataSender active, take one command
\* from the queue, give it the next request id, enter it in pendingRequests,
\* serialize it into a DataSender and watch writePipe for output
HandleWakeup(g) ==
    /\ epc[g] = "dispatch"
    /\ "wake" \in pollres[g]
    /\ wakeup > 0
    /\ wakeup' = wakeup - 1
    /\ IF WakeIsNoop(dataSender[g], commandQueue)
          THEN UNCHANGED <<commandQueue, reqId, pendingRequests, dataSender,
                           pollOut, sentAs>>
          ELSE LET c == Head(commandQueue) IN
               /\ commandQueue' = Tail(commandQueue)
               /\ reqId' = _getRequestId(reqId)
               /\ pendingRequests' = [pendingRequests EXCEPT ![g] =
                                         @ \cup {<<reqId', c>>}]
               /\ dataSender' = [dataSender EXCEPT ![g] =
                                    [active |-> TRUE, id |-> reqId',
                                     left |-> ReqLen]]
               /\ pollOut' = [pollOut EXCEPT ![g] = TRUE]
               /\ sentAs' = [sentAs EXCEPT ![c] = <<g, reqId'>>]
    /\ NextEvent(g, "wake")
    /\ UNCHANGED <<isRunning, clientAlive, lock, commthread,
                   eventFdReciever, eventFdSender>>
    /\ UNCHANGED <<cpc, cres, cout, afterClose, closeVars, evtReciever, exitPath, workerVars>>
    /\ UNCHANGED <<logVars, wakeupCap, procPipes>>

\* a write completion that writes no wakeup byte
TokensAfterWriteSame(w) == w

\* real_ioproc._pingPoller() on write completion: one byte more in the pipe
TokensAfterWrite(w) == w + 1

\* _requestToBytes(cmd, reqId): the frame of request i, unit by unit
Frame(i) == [j \in 1 .. ReqLen |-> <<i, j>>]

\* DataSender._dataPending: the units of the frame not written yet
DataPending(ds) == SubSeq(Frame(ds.id), ReqLen - ds.left + 1, ReqLen)

\* a sender that takes every write to have written one unit
DataLeftByOne(left, n) == left - 1

\* self._dataPending = self._dataPending[n:]: what is left after n units
DataLeft(left, n) == left - n

\* a sender that reports completion by what is left after its write
processUntilEmpty(left, n) ==
    [ret |-> DataLeft(left, n) = 0, left |-> DataLeft(left, n)]

\* DataSender.process (lines 250-256) on a sender with left units pending,
\* the os.write taking n of them: True without a write when nothing is
\* pending, else the write, the written prefix dropped, and False
process(left, n) ==
    IF left = 0
       THEN [ret |-> TRUE, left |-> 0]
       ELSE [ret |-> FALSE, left |-> DataLeft(left, n)]

\* lines 165-169: the write event of the request pipe.  os.write on the pipe
\* of a dead worker raises; else n units go to the pipe (the worker has the
\* request once its last unit is written) and, when process returns True,
\* the sender is dropped, writePipe goes back to ERROR_FLAGS and _pingPoller
\* is called, which raises when the wakeup sender is closed
HandleWriteEvent(g, n) ==
    /\ epc[g] = "dispatch"
    /\ "write" \in pollres[g]
    /\ LET ds == dataSender[g]
           r == process(ds.left, n)
       IN  IF ds.left > 0 /\ wstate[g] # "running"
              THEN /\ n = 1
                   /\ Raise(g)
                   /\ UNCHANGED <<dataSender, wreq, reqPipe, pollOut, wakeup>>
              ELSE /\ reqPipe' = [reqPipe EXCEPT ![g] =
                                    @ \o SubSeq(DataPending(ds), 1, n)]
                   /\ wreq' = [wreq EXCEPT ![g] =
                                 IF n > 0 /\ n = ds.left
                                    THEN @ \cup {ds.id} ELSE @]
                   /\ IF r.ret
                         THEN /\ dataSender' = [dataSender EXCEPT ![g] = NoSender]
                              /\ pollOut' = [pollOut EXCEPT ![g] = FALSE]
                              /\ IF PingWrites
                                    THEN /\ PingRoom
                                         /\ wakeup' = TokensAfterWrite(wakeup)
                                         /\ NextEvent(g, "write")
                                         /\ exitPath' = exitPath
                                    ELSE /\ wakeup' = wakeup
                                         /\ Raise(g)
                         ELSE /\ dataSender' = [dataSender EXCEPT ![g].left = r.left]
                              /\ pollOut' = pollOut
                              /\ wakeup' = wakeup
                              /\ NextEvent(g, "write")
                              /\ exitPath' = exitPath
    /\ UNCHANGED <<isRunning, clientAlive, lock, commthread,
                   eventFdReciever, eventFdSender, commandQueue, reqId>>
    /\ UNCHANGED <<pendingRequests, evtReciever>>
    /\ UNCHANGED <<callerVars, closeVars, wstate, respPipe>>
    /\ UNCHANGED <<logVars, wakeupCap, procPipes>>

\* the write event with nothing pending: process writes nothing and returns
\* True
HandleWriteDone(g) ==
    /\ dataSender[g].left = 0
    /\ HandleWriteEvent(g, 0)

\* the write event with units pending: one os.write of n of them (False is
\* returned even when they were the last)
HandleWrite(g, n) ==
    /\ dataSender[g].left > 0
    /\ n \in 1 .. dataSender[g].left
    /\ HandleWriteEvent(g, n)

\* lines 165-166 when the os.write of DataSender.process finds the pipe full:
\* writePipe is non-blocking (line 368), os.write raises OSError(EAGAIN),
\* process does not catch it and it leaves the loop for the except clause
HandleWriteBlocks(g) ==
    /\ epc[g] = "dispatch"
    /\ "write" \in pollres[g]
    /\ dataSender[g].left > 0
    /\ wstate[g] = "running"
    /\ Raise(g)
    /\ UNCHANGED <<pendingRequests, dataSender, pollOut, evtReciever>>
    /\ UNCHANGED <<clientVars, callerVars, closeVars, workerVars>>
    /\ UNCHANGED <<logVars, wakeupCap, procPipes>>

\* an except clause that fails the oldest entry only
InvalidatedOldest(tbl) == {e \in tbl : \A f \in tbl : e[1] <= f[1]}

\* line 172: for request in pendingRequests.values()
Invalidated(tbl) == tbl

\* lines 170-175: the except clause gives every entry of pendingRequests the
\* crash result and sets its event
CommExcept(g) ==
    /\ epc[g] = "except"
    /\ cres' = [c \in Callers |->
                  IF \E e \in Invalidated(pendingRequests[g]) : e[2] = c
                     THEN CrashResult ELSE cres[c]]
    /\ epc' = [epc EXCEPT ![g] = "finally"]
    /\ UNCHANGED <<eref, pollres, pendingRequests, dataSender, pollOut,
                   evtReciever, exitPath>>
    /\ UNCHANGED <<clientVars, cpc, cout, sentAs, afterClose, closeVars, workerVars>>
    /\ UNCHANGED <<logVars, wakeupCap, procPipes>>

\* a finally clause that closes the descriptors and leaves the worker alone
CommFinallyNoKill(g) ==
    /\ epc[g] = "finally"
    /\ evtReciever' = [evtReciever EXCEPT ![g] = FALSE]
    /\ respPipe' = [respPipe EXCEPT ![g] = <<>>]
    /\ reqPipe' = [reqPipe EXCEPT ![g] = <<>>]
    /\ epc' = [epc EXCEPT ![g] = "relock"]
    /\ UNCHANGED <<eref, pollres, pendingRequests, dataSender, pollOut, exitPath>>
    /\ UNCHANGED <<clientVars, callerVars, closeVars, wstate, wreq>>
    /\ UNCHANGED <<logVars, wakeupCap, procPipes>>

\* a finally clause that goes on to the restart with the descriptors open and
\* the worker alive
CommFinallyKeeps(g) ==
    /\ epc[g] = "finally"
    /\ epc' = [epc EXCEPT ![g] = "relock"]
    /\ UNCHANGED <<eref, pollres, pendingRequests, dataSender, pollOut,
                   evtReciever, exitPath>>
    /\ UNCHANGED <<clientVars, callerVars, closeVars, workerVars, logVars, wakeupCap, procPipes>>

\* lines 178-188: close readPipe, writePipe and the dup of the wakeup
\* receiver, kill the worker and wait for it
CommFinally(g) ==
    /\ epc[g] = "finally"
    /\ evtReciever' = [evtReciever EXCEPT ![g] = FALSE]
    /\ wstate' = [wstate EXCEPT ![g] = "reaped"]
    /\ wreq' = [wreq EXCEPT ![g] = {}]
    /\ respPipe' = [respPipe EXCEPT ![g] = <<>>]
    /\ reqPipe' = [reqPipe EXCEPT ![g] = <<>>]
    /\ epc' = [epc EXCEPT ![g] = "relock"]
    /\ UNCHANGED <<eref, pollres, pendingRequests, dataSender, pollOut, exitPath>>
    /\ UNCHANGED <<clientVars, callerVars, closeVars>>
    /\ UNCHANGED <<logVars, wakeupCap, procPipes>>

\* a restart that does not look at the flag
RestartAlways == TRUE

\* a restart test that is inverted
RestartInverted == ~isRunning

\* line 193: the restart is decided on _isRunning, read under the lock
RestartWanted == isRunning

\* lines 190-194: resolve the weak reference; when the client is there take
\* its lock and test the flag; the thread ends unless a restart is wanted
CommRelock(g) ==
    /\ epc[g] = "relock"
    /\ IF ~clientAlive
          THEN /\ ThreadEnds(g)
               /\ lock' = lock
          ELSE /\ lock = 0
               /\ IF RestartWanted
                     THEN /\ lock' = g
                          /\ epc' = [epc EXCEPT ![g] = "run"]
                          /\ eref' = [eref EXCEPT ![g] = TRUE]
                          /\ UNCHANGED <<pollres, pendingRequests, dataSender,
                                         pollOut, exitPath>>
                     ELSE /\ lock' = lock
                          /\ ThreadEnds(g)
    /\ UNCHANGED <<isRunning, clientAlive, commthread,
                   eventFdReciever, eventFdSender, wakeup, commandQueue, reqId>>
    /\ UNCHANGED <<evtReciever>>
    /\ UNCHANGED <<callerVars, closeVars, workerVars>>
    /\ UNCHANGED <<logVars, wakeupCap>>
    /\ Collected(g)

\* a restart that leaves _partialLogs as the last generation left it
CommRunKeepsLogs(g) ==
    /\ epc[g] = "run"
    /\ commthread < MaxGen
    /\ LET n == commthread + 1 IN
       /\ commthread' = n
       /\ wstate' = [wstate EXCEPT ![n] = "running"]
       /\ procPipes' = [procPipes EXCEPT ![n] = "open"]
       /\ epc' = [epc EXCEPT ![g] = "waitstarted", ![n] = "start"]
    /\ UNCHANGED <<isRunning, clientAlive, lock,
                   eventFdReciever, eventFdSender, wakeup, commandQueue, reqId>>
    /\ UNCHANGED <<eref, pollres, pendingRequests, dataSender, pollOut,
                   evtReciever, exitPath>>
    /\ UNCHANGED <<callerVars, closeVars, wreq, respPipe, reqPipe>>
    /\ logIn' = logStream
    /\ UNCHANGED <<logStream, errIn, partialLogs, logRecords, logSink, wakeupCap>>

\* _run and _startCommunication up to start_thread, called with the lock
\* held: new pipes, _partialLogs emptied (line 342), a new worker, whose
\* stdout carries logStream from its beginning, _started cleared, a new thread
CommRun(g) ==
    /\ epc[g] = "run"
    /\ commthread < MaxGen
    /\ LET n == commthread + 1 IN
       /\ commthread' = n
       /\ wstate' = [wstate EXCEPT ![n] = "running"]
       /\ procPipes' = [procPipes EXCEPT ![n] = "open"]
       /\ epc' = [epc EXCEPT ![g] = "waitstarted", ![n] = "start"]
    /\ UNCHANGED <<isRunning, clientAlive, lock,
                   eventFdReciever, eventFdSender, wakeup, commandQueue, reqId>>
    /\ UNCHANGED <<eref, pollres, pendingRequests, dataSender, pollOut,
                   evtReciever, exitPath>>
    /\ UNCHANGED <<callerVars, closeVars, wreq, respPipe, reqPipe>>
    /\ partialLogs' = <<>>
    /\ logIn' = logStream
    /\ UNCHANGED <<logStream, errIn, logRecords, logSink, wakeupCap>>

\* _startCommunication: _started.wait(wait_until_ready) returns, on the event
\* or on its timeout; _run returns, the lock is released and the thread ends
CommRestarted(g) ==
    /\ epc[g] = "waitstarted"
    /\ lock' = 0
    /\ ThreadEnds(g)
    /\ UNCHANGED <<isRunning, clientAlive, commthread,
                   eventFdReciever, eventFdSender, wakeup, commandQueue, reqId>>
    /\ UNCHANGED <<evtReciever>>
    /\ UNCHANGED <<callerVars, closeVars, workerVars>>
    /\ UNCHANGED <<logVars, wakeupCap>>
    /\ Collected(g)

\* ------------------------------------------------------------------ worker
\* the worker answers request i: a frame for it enters the response pipe
WorkerAnswer(g, i) ==
    /\ wstate[g] = "running"
    /\ i \in wreq[g]
    /\ wreq' = [wreq EXCEPT ![g] = @ \ {i}]
    /\ respPipe' = [respPipe EXCEPT ![g] = Append(@, i)]
    /\ UNCHANGED <<clientVars, callerVars, closeVars, engineVars, wstate, reqPipe>>
    /\ UNCHANGED <<logVars, wakeupCap, procPipes>>

\* the worker answers request j under another id i (0 is an id that was never
\* given out): the engine reads a well-formed response for an id that is not,
\* or is no longer, the one it waits for
WorkerStray(g, i, j) ==
    /\ wstate[g] = "running"
    /\ j \in wreq[g]
    /\ i # j
    /\ wreq' = [wreq EXCEPT ![g] = @ \ {j}]
    /\ respPipe' = [respPipe EXCEPT ![g] = Append(@, i)]
    /\ UNCHANGED <<clientVars, callerVars, closeVars, engineVars, wstate, reqPipe>>
    /\ UNCHANGED <<logVars, wakeupCap, procPipes>>

\* the worker process dies by itself (the crash method, a signal)
WorkerExit(g) ==
    /\ wstate[g] = "running"
    /\ wstate' = [wstate EXCEPT ![g] = "exited"]
    /\ wreq' = [wreq EXCEPT ![g] = {}]
    /\ UNCHANGED <<clientVars, callerVars, closeVars, engineVars, respPipe, reqPipe>>
    /\ UNCHANGED <<logVars, wakeupCap, procPipes>>

\* -------------------------------------------------------------------- Next
CallerStep ==
    \E c \in Callers :
        \/ SendCommandPut(c)
        \/ SendCommandPing(c)
        \/ SendCommandTimeout(c)
        \/ SendCommandReturn(c)

CloseStep ==
    \/ \E k \in Closers, sync \in BOOLEAN : CloseCall(k, sync)
    \/ Reclaim
    \/ \E k \in Closers : ClosePing(k) \/ CloseFds(k) \/ CloseJoin(k)

EngineStep ==
    \E g \in Gens :
        \/ CommStart(g)
        \/ CommPoll(g)
        \/ HandleError(g)
        \/ \E k \in {"whole", "bad", "part", "hdr"}, e \in Errcodes :
              HandleResponse(g, k, e)
        \/ \E k \in {"whole", "part", "eof"}, e \in Errcodes : ReadBody(g, k, e)
        \/ HandleWakeup(g)
        \/ HandleWriteDone(g)
        \/ \E n \in 1 .. ReqLen : HandleWrite(g, n)
        \/ CommExcept(g)
        \/ CommFinally(g)
        \/ CommRelock(g)
        \/ CommRun(g)
        \/ CommRestarted(g)

WorkerStep ==
    \E g \in Gens :
        \/ \E i \in 1 .. NCallers : WorkerAnswer(g, i)
        \/ WorkerExit(g)

Next == CallerStep \/ CloseStep \/ EngineStep \/ WorkerStep

Spec == Init /\ [][Next]_vars

\* ------------------------------------------------- runs that make progress
\* The client is not closed by the application (it may be reclaimed), no
\* caller gives up, and the worker of the last generation the bounds allow
\* neither dies nor garbles or splits a frame nor reports an error.  Every
\* thread that can take a step eventually takes one (the threads are
\* scheduled by the operating system, the poll has a timeout), and the
\* worker answers every request it has read.
CallerProgress(c) == SendCommandPing(c) \/ SendCommandReturn(c)

FinalizerProgress == ClosePing(0) \/ CloseFds(0)

EngineOf(g) ==
    \/ CommStart(g)
    \/ CommPoll(g)
    \/ HandleError(g)
    \/ \E k \in {"whole", "bad", "part", "hdr"}, e \in Errcodes :
          /\ g = MaxGen => (k = "whole" /\ e \in {0, NoErrcode})
          /\ HandleResponse(g, k, e)
    \/ \E k \in {"whole", "part", "eof"}, e \in Errcodes : ReadBody(g, k, e)
    \/ HandleWakeup(g)
    \/ HandleWriteDone(g)
    \/ \E n \in 1 .. ReqLen : HandleWrite(g, n)
    \/ CommExcept(g)
    \/ CommFinally(g)
    \/ CommRelock(g)
    \/ CommRun(g)
    \/ CommRestarted(g)

WorkerAnswers(g) == \E i \in 1 .. NCallers : WorkerAnswer(g, i)

WorkerDies(g) == g < MaxGen /\ WorkerExit(g)

NextFair ==
    \/ \E c \in Callers : SendCommandPut(c) \/ CallerProgress(c)
    \/ Reclaim
    \/ FinalizerProgress
    \/ \E g \in Gens : EngineOf(g) \/ WorkerAnswers(g) \/ WorkerDies(g)

FairSpec ==
    /\ Init
    /\ [][NextFair]_vars
    /\ \A c \in Callers : WF_vars(CallerProgress(c))
    /\ WF_vars(FinalizerProgress)
    /\ \A g \in Gens : WF_vars(EngineOf(g)) /\ WF_vars(WorkerAnswers(g))

\* the runs of the client on a wakeup pipe that can be filled: callers,
\* reclamation, threads and workers as in the runs that make progress
NarrowSpec == NarrowInit /\ [][NextFair]_vars

\* the runs in which the worker may also answer under an id it was not asked
NextStray ==
    \/ NextFair
    \/ \E g \in Gens, i \in 0 .. NCallers, j \in 1 .. NCallers : WorkerStray(g, i, j)

StraySpec == Init /\ [][NextStray]_vars

\* the runs in which a write to the request pipe may find it full
NextBlock ==
    \/ NextFair
    \/ \E g \in Gens : HandleWriteBlocks(g)

BlockSpec == Init /\ [][NextBlock]_vars

\* ------------------------------------------------------------ _processLogs
\* The bytes of the diagnostic stream: "x" an ordinary byte, "n" a line feed,
\* "r" a carriage return (bytes.splitlines ends a line at either, and takes
\* "r" followed by "n" as one terminator).
LogBytes == {"x", "n", "r"}

RECURSIVE SeqsUpTo(_)
SeqsUpTo(k) ==
    IF k = 0 THEN {<<>>}
    ELSE LET shorter == SeqsUpTo(k - 1) IN
         shorter \cup {Append(q, b) : q \in {t \in shorter : Len(t) = k - 1},
                                      b \in LogBytes}

LogStreams == SeqsUpTo(MaxLog)

\* length of the first line of d as bytes.splitlines(True) cuts it
FirstLineLen(d) ==
    LET ends == {j \in 1 .. Len(d) : d[j] \in {"n", "r"}} IN
    IF ends = {} THEN Len(d)
    ELSE LET j == CHOOSE m \in ends : \A o \in ends : m <= o IN
         IF d[j] = "r" /\ j < Len(d) /\ d[j + 1] = "n" THEN j + 1 ELSE j

\* data.splitlines(True)
RECURSIVE SplitLines(_)
SplitLines(d) ==
    IF d = <<>> THEN <<>>
    ELSE LET k == FirstLineLen(d) IN
         <<SubSeq(d, 1, k)>> \o SplitLines(SubSeq(d, k + 1, Len(d)))

\* line.strip(): the line without the white space at its ends
RECURSIVE Strip(_)
Strip(l) ==
    IF l = <<>> THEN l
    ELSE IF l[Len(l)] \in {"n", "r"} THEN Strip(SubSeq(l, 1, Len(l) - 1))
    ELSE IF l[1] \in {"n", "r"} THEN Strip(Tail(l))
    ELSE l

\* line.endswith(b"\n")
LineEnds(l) == l[Len(l)] = "n"

\* str.split("|", k): the fields of l cut at its first k bars, the bar being
\* the byte "b"
RECURSIVE split(_, _)
split(l, k) ==
    LET bars == {j \in 1 .. Len(l) : l[j] = "b"} IN
    IF k = 0 \/ bars = {} THEN <<l>>
    ELSE LET j == CHOOSE m \in bars : \A o \in bars : m <= o IN
         <<SubSeq(l, 1, j - 1)>> \o split(SubSeq(l, j + 1, Len(l)), k - 1)

\* level, logDomain, message = line.strip().split("|", 2) does not raise
Unpacks(l) == Len(split(Strip(l), 2)) = 3

\* a loop that gives up the data at the first line it cannot take apart
RECURSIVE ProcessLinesUntilInvalid(_, _, _, _)
ProcessLinesUntilInvalid(lines, partial, recs, sink) ==
    IF lines = <<>> THEN [partial |-> partial, recs |-> recs, sink |-> sink]
    ELSE IF ~LineEnds(Head(lines))
            THEN [partial |-> Head(lines), recs |-> recs, sink |-> sink]
    ELSE IF ~Unpacks(Head(lines))
            THEN [partial |-> partial,
                  recs |-> Append(recs, Strip(Head(lines))),
                  sink |-> Append(sink, <<"warning", Strip(Head(lines))>>)]
    ELSE ProcessLinesUntilInvalid(Tail(lines), partial,
                                  Append(recs, Strip(Head(lines))),
                                  Append(sink, <<"sublog", Strip(Head(lines))>>))

\* the for loop of _processLogs over lines: a line that does not end in a line
\* feed is stored in _partialLogs and the function returns; every other line
\* is stripped and split; when the split does not give three fields a
\* warning is logged and the loop continues, else the line goes to the level
\* dispatch
RECURSIVE ProcessLines(_, _, _, _)
ProcessLines(lines, partial, recs, sink) ==
    IF lines = <<>> THEN [partial |-> partial, recs |-> recs, sink |-> sink]
    ELSE IF ~LineEnds(Head(lines))
            THEN [partial |-> Head(lines), recs |-> recs, sink |-> sink]
    ELSE ProcessLines(Tail(lines), partial,
                      Append(recs, Strip(Head(lines))),
                      Append(sink, <<IF Unpacks(Head(lines)) THEN "sublog"
                                                             ELSE "warning",
                                     Strip(Head(lines))>>))

\* _processLogs(data) on a client whose _partialLogs is partial
ProcessLogs(partial, data, recs, sink) ==
    ProcessLines(SplitLines(partial \o data), <<>>, recs, sink)

\* what the thread would deliver had the stream come in one read
Whole(stream) == ProcessLogs(<<>>, stream, <<>>, <<>>)

\* the worker has written logStream; nothing of it is read yet
LogInit ==
    /\ ClientInit
    /\ wakeupCap = WidePipe
    /\ logStream \in LogStreams
    /\ logIn = logStream
    /\ errIn = <<>>
    /\ partialLogs = <<>>
    /\ logRecords = <<>>
    /\ logSink = <<>>

\* lines 128-130: real_ioproc._processLogs(os.read(fd, 1024)), the read
\* returning the next n bytes of the stream
Feed(n) ==
    /\ n \in 1 .. Len(logIn)
    /\ LET r == ProcessLogs(partialLogs, SubSeq(logIn, 1, n), logRecords, logSink) IN
       /\ partialLogs' = r.partial
       /\ logRecords' = r.recs
       /\ logSink' = r.sink
    /\ logIn' = SubSeq(logIn, n + 1, Len(logIn))
    /\ UNCHANGED <<logStream, errIn, progVars, wakeupCap, procPipes>>

NextLog == \E n \in 1 .. MaxLog : Feed(n)

\* lines 128-130 inside the loop: the thread handles the readable stdout of
\* its worker, reading the next n bytes, and goes on to the next event
HandleLogs(g, n) ==
    /\ epc[g] = "dispatch"
    /\ "log" \in pollres[g]
    /\ n \in 1 .. Len(logIn)
    /\ LET r == ProcessLogs(partialLogs, SubSeq(logIn, 1, n), logRecords, logSink) IN
       /\ partialLogs' = r.partial
       /\ logRecords' = r.recs
       /\ logSink' = r.sink
    /\ logIn' = SubSeq(logIn, n + 1, Len(logIn))
    /\ NextEvent(g, "log")
    /\ UNCHANGED <<pendingRequests, dataSender, pollOut, evtReciever, exitPath>>
    /\ UNCHANGED <<clientVars, callerVars, closeVars, workerVars>>
    /\ UNCHANGED <<logStream, errIn, wakeupCap, procPipes>>

\* what the workers log: a partial line, a line, a line and a partial line
GenStreams == {<<"x">>, <<"x", "n">>, <<"x", "n", "x">>}

\* the client whose workers write a log stream
GenInit ==
    /\ ClientInit
    /\ wakeupCap = WidePipe
    /\ logStream \in GenStreams
    /\ logIn = logStream
    /\ errIn = <<>>
    /\ partialLogs = <<>>
    /\ logRecords = <<>>
    /\ logSink = <<>>

NextGen ==
    \/ NextFair
    \/ \E g \in Gens, n \in 1 .. MaxLog : HandleLogs(g, n)

GenSpec == GenInit /\ [][NextGen]_vars

\* log streams with bars: a line without bars and a line of three empty
\* fields; a line of three fields, a line of two and a partial line; a line
\* of two fields
ParseStreams == {<<"x", "n", "b", "b", "n">>,
                 <<"b", "b", "n", "b", "n", "x">>,
                 <<"b", "x", "n">>}

\* the client whose workers write such a stream
ParseInit ==
    /\ ClientInit
    /\ wakeupCap = WidePipe
    /\ logStream \in ParseStreams
    /\ logIn = logStream
    /\ errIn = <<>>
    /\ partialLogs = <<>>
    /\ logRecords = <<>>
    /\ logSink = <<>>

ParseSpec == ParseInit /\ [][NextGen]_vars

LogSpec == LogInit /\ [][NextLog]_vars

\* lines 128-130 for fd == err: the read returns the next n bytes of the
\* worker's stderr, and they go to the same _processLogs
FeedErr(n) ==
    /\ n \in 1 .. Len(errIn)
    /\ LET r == ProcessLogs(partialLogs, SubSeq(errIn, 1, n), logRecords, logSink) IN
       /\ partialLogs' = r.partial
       /\ logRecords' = r.recs
       /\ logSink' = r.sink
    /\ errIn' = SubSeq(errIn, n + 1, Len(errIn))
    /\ UNCHANGED <<logStream, logIn, progVars, wakeupCap, procPipes>>

\* the longest stream a channel carries in the runs with two channels
MaxChan == 3

\* what the worker writes on stdout (text x) and on stderr (text y)
OutStreams == UNION {[1 .. k -> {"x", "n"}] : k \in 1 .. MaxChan}
ErrStreams == UNION {[1 .. k -> {"y", "n"}] : k \in 1 .. MaxChan}

\* the worker has written on both channels; nothing of it is read yet
ChanInit ==
    /\ ClientInit
    /\ wakeupCap = WidePipe
    /\ logStream \in OutStreams
    /\ logIn = logStream
    /\ errIn \in ErrStreams
    /\ partialLogs = <<>>
    /\ logRecords = <<>>
    /\ logSink = <<>>

NextChan == \E n \in 1 .. MaxChan : Feed(n) \/ FeedErr(n)

ChanSpec == ChanInit /\ [][NextChan]_vars

\* ================================================================ properties
InLoop(g) == epc[g] \in {"poll", "dispatch", "readbody"}
AfterExcept(g) == epc[g] \in {"finally", "relock", "run", "waitstarted"}
\* generation g's thread takes a response out of its table in this step
Delivers(g, e) ==
    /\ epc[g] \in {"dispatch", "readbody"}
    /\ e \in pendingRequests[g]
    /\ e \notin pendingRequests'[g]

\* C1: every caller that holds a worker's response holds the response whose
\* id is the id under which its own command was serialized, and no two
\* callers were given the same id
C1_Correlation ==
    \A c \in Callers :
        /\ (cres[c].has /\ cres[c] # CrashResult)
              => (sentAs[c][2] # 0 /\ cres[c].id = sentAs[c][2])
        /\ \A d \in Callers :
              (d # c /\ sentAs[c][2] # 0) => sentAs[d][2] # sentAs[c][2]

\* two requests outstanding and the one sent last is answered first
C1_Witness ==
    /\ cres[2].has /\ cres[2] # CrashResult /\ cpc[2] = "wait"
    /\ cpc[1] = "wait" /\ ~cres[1].set
    /\ \E g \in Gens : <<sentAs[1][2], 1>> \in pendingRequests[g] /\ InLoop(g)
    /\ sentAs[1][2] < sentAs[2][2]

\* C2: once a generation has left its loop by an exception, every entry that
\* was in its table belongs to a caller that holds the crash result (errcode
\* ERR_IOPROCESS_CRASH), or has raised OSError with that code, or had given
\* up before (Timeout, Closed)
C2_CrashInvalidation ==
    \A g \in Gens :
        (exitPath[g] = "raise" /\ AfterExcept(g)) =>
            \A e \in pendingRequests[g] :
                LET c == e[2] IN
                IF cpc[c] = "done"
                   THEN \/ cout[c] = [kind |-> "oserror", code |-> ERR_IOPROCESS_CRASH]
                        \/ cout[c].kind \in {"timeout", "closed"}
                   ELSE cres[c] = CrashResult

\* two requests in the table of a crashed generation: one caller has raised
\* OSError(ERR_IOPROCESS_CRASH), the other holds the crash result
C2_Witness ==
    \E g \in Gens :
        /\ exitPath[g] = "raise" /\ AfterExcept(g)
        /\ Cardinality(pendingRequests[g]) = 2
        /\ cout[1] = [kind |-> "oserror", code |-> ERR_IOPROCESS_CRASH]
        /\ cpc[2] = "wait" /\ cres[2] = CrashResult

\* C3: a generation that crashes is followed by a new worker and a new
\* thread, and a caller that enters _sendCommand once the last generation is
\* there gets its command answered and returns normally
C3_TransparentRestart ==
    /\ \A g \in 1 .. (MaxGen - 1) :
          (epc[g] = "except")
              ~> (commthread = g + 1 /\ wstate[g + 1] = "running" /\ epc[g + 1] # "none")
    /\ \A c \in Callers :
          []((cpc[c] = "idle" /\ commthread = MaxGen)
                => [](cpc[c] # "idle" => <>(cout[c].kind = "ok")))

\* one caller has raised OSError(ERR_IOPROCESS_CRASH) in a crashed
\* generation; another, whose command went to the next generation's worker,
\* holds a normal response
C3_Witness ==
    \E c \in Callers, d \in Callers :
        /\ cout[d] = [kind |-> "oserror", code |-> ERR_IOPROCESS_CRASH]
        /\ cpc[c] = "wait" /\ cres[c].set /\ cres[c].errcode \in {0, NoErrcode}
        /\ sentAs[c][1] = commthread /\ commthread > 1
        /\ wstate[commthread] = "running"

\* C4: an invoke entered after a close() call has returned raises Closed
C4_ClosedAfterClose ==
    [][\A c \in Callers :
          (cpc[c] = "ping" /\ afterClose[c] /\ cpc'[c] # "ping")
              => cout'[c].kind = "closed"]_vars

\* C5: once the client is marked closed no worker is spawned and no thread
\* is started
C5_NoSpawnAfterClose ==
    [][~isRunning => /\ commthread' = commthread
                     /\ \A g \in Gens : wstate'[g] = "running" => wstate[g] = "running"
                     /\ \A g \in Gens : epc'[g] = "start" => epc[g] = "start"]_vars

\* the client was closed, a generation then ended by an exception, its
\* worker is reaped, and a further generation could have been spawned
C5_Witness ==
    \E g \in Gens :
        /\ ~isRunning /\ clientAlive
        /\ exitPath[g] = "raise" /\ epc[g] = "relock"
        /\ g = commthread /\ commthread < MaxGen

\* C6: when a close(sync=True) call has returned, the newest generation's
\* thread has ended and its worker is reaped
C6_SyncCloseReaps ==
    \A k \in Closers :
        (clpc[k] = "done" /\ clsync[k])
            => (epc[commthread] = "dead" /\ wstate[commthread] = "reaped")

\* C7: a generation whose thread has ended has no worker left
C7_NoWorkerOutlivesThread ==
    \A g \in Gens : epc[g] = "dead" => wstate[g] = "reaped"

\* C8: a thread waiting in poll holds no reference to the client; once the
\* client is gone a thread in its loop ends with its worker killed and
\* reaped, and nothing is spawned any more
C8_ClientReclamation ==
    /\ [](\A g \in Gens : epc[g] = "poll" => ~eref[g])
    /\ \A g \in Gens :
          (~clientAlive /\ epc[g] = "poll")
              ~> (epc[g] = "dead" /\ wstate[g] = "reaped")
    /\ [][~clientAlive => commthread' = commthread]_vars

\* the client was reclaimed while a thread was in its loop; the thread has
\* left it by the break, the worker is reaped, a restart was possible
C8_Witness ==
    \E g \in Gens :
        /\ ~clientAlive /\ ~eref[g]
        /\ exitPath[g] = "break" /\ epc[g] = "relock"
        /\ wstate[g] = "reaped" /\ commthread < MaxGen

\* C9: a Timeout is raised only with the event unset and leaves the queue,
\* the tables, the sender, the threads and the worker as they are; a response
\* read later for the request of a caller that timed out removes exactly that
\* entry, is stored in that caller's CmdResult only, and leaves the thread in
\* its loop
C9_Timeout ==
    [][/\ \A c \in Callers :
            (cpc[c] = "wait" /\ cout'[c].kind = "timeout")
                => /\ ~cres[c].set
                   /\ UNCHANGED <<commandQueue, engineVars, workerVars, cres>>
       /\ \A g \in Gens : \A e \in pendingRequests[g] :
            (Delivers(g, e) /\ cout[e[2]].kind = "timeout")
                => /\ pendingRequests'[g] = pendingRequests[g] \ {e}
                   /\ cres'[e[2]].set /\ cres'[e[2]].id = e[1]
                   /\ \A d \in Callers : d # e[2] => cres'[d] = cres[d]
                   /\ epc'[g] \in {"poll", "dispatch"}]_vars

\* a caller has raised Timeout, its request was answered later, and the
\* thread that read the answer is in its loop with the entry gone
C9_Witness ==
    \E c \in Callers, g \in Gens :
        /\ cout[c].kind = "timeout"
        /\ cres[c].has /\ cres[c] # CrashResult
        /\ sentAs[c][1] = g /\ InLoop(g)
        /\ \A e \in pendingRequests[g] : e[2] # c

\* C10: a stored response with errcode other than 0 makes its caller raise
\* OSError with that errcode, errcode 0 or no errcode makes it return; the
\* thread that reads a response stays in its loop, stores it for the caller
\* of that id only and leaves every other entry of its table in place
C10_OperationErrorsLocal ==
    [][/\ \A c \in Callers :
            (cpc[c] = "wait" /\ cpc'[c] = "done" /\ cres[c].set)
                => cout'[c] = IF cres[c].errcode \in {0, NoErrcode}
                                 THEN [kind |-> "ok", code |-> 0]
                                 ELSE [kind |-> "oserror", code |-> cres[c].errcode]
       /\ \A g \in Gens : \A e \in pendingRequests[g] :
            Delivers(g, e)
                => /\ epc'[g] \in {"poll", "dispatch"}
                   /\ exitPath'[g] = exitPath[g]
                   /\ pendingRequests'[g] = pendingRequests[g] \ {e}
                   /\ cres'[e[2]].set /\ cres'[e[2]].id = e[1]
                   /\ \A d \in Callers : d # e[2] => cres'[d] = cres[d]]_vars

\* one caller has raised OSError(EAGAIN) while the other request is still in
\* the table of a thread that is in its loop
C10_Witness ==
    \E g \in Gens :
        /\ cout[1] = [kind |-> "oserror", code |-> EAGAIN]
        /\ cpc[2] = "wait" /\ ~cres[2].set
        /\ InLoop(g) /\ \E e \in pendingRequests[g] : e[2] = 2

\* C11: a close() call (the one made by __del__ included) that finds the
\* client already marked closed returns at once and changes no field of the
\* client; only a call that found it open sets the flag, and only that call
\* goes on to write the wakeup byte and close the wakeup descriptors, so at
\* most one call is ever past the flag test
C11_CloseIdempotent ==
    /\ [][\A k \in Closers :
             (clpc[k] = "idle" /\ clpc'[k] # "idle")
                 => IF isRunning
                       THEN isRunning' = FALSE /\ clpc'[k] = "ping"
                       ELSE /\ clpc'[k] = "done"
                            /\ UNCHANGED <<isRunning, lock, commthread, eventFdReciever,
                                           eventFdSender, wakeup, commandQueue, reqId>>
                            /\ UNCHANGED <<callerVars, engineVars, workerVars>>]_vars
    /\ [](Cardinality({k \in Closers : clpc[k] \in {"ping", "closeFds", "join"}}) <= 1)
    /\ []((\E k \in Closers : clpc[k] \in {"ping", "closeFds"})
             => (eventFdReciever /\ eventFdSender /\ ~isRunning))

\* three close() calls were made, the last by __del__; the descriptors are
\* closed and every call has returned
C11_Witness ==
    /\ clpc[1] = "done" /\ clpc[2] = "done" /\ clpc[0] = "done"
    /\ ~clientAlive /\ ~eventFdReciever /\ ~eventFdSender /\ ~isRunning

\* C12: a step of a thread that takes a well-formed frame out of the response
\* pipe of a running worker, in however many reads, stores the response for
\* the caller of its id and leaves the thread in its loop
C12_PartialRead ==
    [][\A g \in Gens :
          (/\ epc[g] \in {"dispatch", "readbody"}
           /\ wstate[g] = "running"
           /\ Len(respPipe'[g]) < Len(respPipe[g])
           /\ exitPath'[g] # "raise")
              => /\ epc'[g] \in {"poll", "dispatch"}
                 /\ \A e \in pendingRequests[g] :
                       e[1] = Head(respPipe[g]) => cres'[e[2]].set]_vars

\* C13: while a generation's request pipe is open, what was written to it is
\* the frames of the commands dispatched in that generation, one after the
\* other in dispatch order (ids grow with dispatch), every unit once and in
\* place; only the frame of the active sender may be there in part, up to
\* the point its _dataPending starts
C13_PartialWrite ==
    \A g \in Gens :
        epc[g] \in {"poll", "dispatch", "readbody", "except", "finally"} =>
            LET s == reqPipe[g]
                L == Len(s)
                ds == dataSender[g]
            IN  /\ \A j \in 1 .. L : s[j][2] = ((j - 1) % ReqLen) + 1
                /\ \A j \in 1 .. (L - 1) :
                      IF j % ReqLen = 0 THEN s[j + 1][1] > s[j][1]
                                        ELSE s[j + 1][1] = s[j][1]
                /\ IF ds.active
                      THEN /\ L % ReqLen = (ReqLen - ds.left) % ReqLen
                           /\ ds.left < ReqLen => s[L][1] = ds.id
                           /\ ds.left = ReqLen => \A j \in 1 .. L : s[j][1] < ds.id
                      ELSE L % ReqLen = 0
                /\ \A e \in pendingRequests[g] :
                      \/ ds.active /\ ds.id = e[1] /\ ds.left > 0
                      \/ \E j \in 1 .. L : s[j] = <<e[1], ReqLen>>

\* one frame is written in full and the next one in part
C13_Witness ==
    \E g \in Gens :
        /\ InLoop(g) /\ wstate[g] = "running"
        /\ Len(reqPipe[g]) = ReqLen + 1
        /\ dataSender[g].active /\ dataSender[g].left = ReqLen - 1
        /\ Cardinality(pendingRequests[g]) = 2

\* C14: once the whole stream is fed, in whatever pieces, the records
\* delivered and the piece kept in _partialLogs are those of feeding the
\* stream in one piece, and the lines delivered and kept make up the stream
\* (no byte lost or duplicated)
C14_LogReassembly ==
    logIn = <<>> =>
        /\ logRecords = Whole(logStream).recs
        /\ partialLogs = Whole(logStream).partial
        /\ Len(SplitLines(logStream)) =
              Len(logRecords) + (IF partialLogs = <<>> THEN 0 ELSE 1)

\* the CmdResult of caller c was signalled: its event is set, or the caller
\* has already returned on it
Signalled(c) == cres[c].set \/ cout[c].kind \in {"ok", "oserror"}

\* C15: when a thread goes on to restart (the client being open), every
\* entry of its table holds the crash result, or its caller has raised
\* OSError with the crash code or had given up before
C15_FailedBeforeRestart ==
    \A g \in Gens :
        epc[g] \in {"run", "waitstarted"} =>
            \A e \in pendingRequests[g] :
                LET c == e[2] IN
                IF cpc[c] = "done"
                   THEN \/ cout[c] = [kind |-> "oserror", code |-> ERR_IOPROCESS_CRASH]
                        \/ cout[c].kind \in {"timeout", "closed"}
                   ELSE cres[c] = CrashResult

\* C16 as stated: every entry put in a table is signalled, so none is left
\* unsignalled in the table of a thread that has run its finally clause
C16_ExactlyOnce ==
    \A g \in Gens :
        epc[g] \in {"relock", "run", "waitstarted"} =>
            \A e \in pendingRequests[g] : Signalled(e[2])

\* C16 as the code has it: an entry is signalled at most once.  A stored
\* result is never overwritten (it only goes away with the caller's return);
\* a step that sets a caller's event is a delivery by the thread holding the
\* entry, which removes it, or that thread's except clause; no caller has an
\* entry in two tables, and no entry of a thread in its loop is signalled
C16_AtMostOnce ==
    /\ [][\A c \in Callers :
             /\ cres[c].set =>
                   \/ cres'[c] = cres[c]
                   \/ cres'[c] = NoResult /\ cpc[c] = "wait" /\ cpc'[c] = "done"
             /\ (~cres[c].set /\ cres'[c].set) =>
                   \E g \in Gens : \E e \in pendingRequests[g] :
                      /\ e[2] = c
                      /\ \/ Delivers(g, e) /\ cres'[c].id = e[1]
                         \/ /\ epc[g] = "except" /\ cres'[c] = CrashResult
                            /\ epc'[g] = "finally"]_vars
    /\ [](\A c \in Callers :
             Cardinality({g \in Gens : \E e \in pendingRequests[g] : e[2] = c}) <= 1)
    /\ [](\A g \in Gens : InLoop(g) =>
             \A e \in pendingRequests[g] : ~cres[e[2]].set)

\* in one generation one entry was completed by its response and removed,
\* another by the except clause
C16_Witness ==
    \E g \in Gens :
        /\ epc[g] = "finally" /\ exitPath[g] = "raise"
        /\ cres[1].has /\ cres[1] # CrashResult /\ sentAs[1][1] = g
        /\ cres[2] = CrashResult /\ sentAs[2][1] = g
        /\ pendingRequests[g] = {<<sentAs[2][2], 2>>}

\* something will make generation g's thread look at the command queue: a
\* byte in the wakeup pipe, a sender whose completion writes one, or a caller
\* that has queued its command and is about to write one
Woken(g) == wakeup > 0 \/ dataSender[g].active \/ \E c \in Callers : cpc[c] = "ping"

\* C17: a generation started by a restart that waits in poll with commands
\* in the queue, the client being open, has something to wake it for them
C17_QueuedAreDispatched ==
    \A g \in Gens :
        (/\ g > 1 /\ g = commthread /\ epc[g] = "poll"
         /\ isRunning /\ clientAlive
         /\ commandQueue # <<>>)
            => Woken(g)

\* the frame of caller c's command is in the request pipe of the newest
\* generation in full, or was, the caller having its response
FullyWritten(c) ==
    \/ cout[c].kind = "ok"
    \/ cres[c].has
    \/ /\ sentAs[c][1] = MaxGen
       /\ \E j \in 1 .. Len(reqPipe[MaxGen]) : reqPipe[MaxGen][j] = <<sentAs[c][2], ReqLen>>

\* C18: a command queued by an invoke entered while the generation that
\* neither crashes nor is closed is in place is dequeued and written to the
\* request pipe in full; and whenever the first generation's thread is in
\* its loop with commands queued, something will wake it for them
C18_NoLostWakeup ==
    /\ \A c \in Callers :
          []((cpc[c] = "idle" /\ commthread = MaxGen)
                => [](cpc[c] # "idle" => <>FullyWritten(c)))
    /\ [](\A g \in Gens :
             (/\ g = 1 /\ commthread = 1 /\ epc[g] = "poll"
              /\ isRunning /\ clientAlive /\ commandQueue # <<>>)
                 => Woken(g))

\* in the generation that does not crash a command is queued, the wakeup
\* pipe is empty and a sender is active: the wakeup byte of the queued
\* command was consumed while the write was going on
C18_Witness ==
    /\ commthread = MaxGen /\ epc[MaxGen] = "poll"
    /\ commandQueue # <<>> /\ wakeup = 0
    /\ dataSender[MaxGen].active
    /\ \A c \in Callers : cpc[c] = "wait"
    /\ \E c \in Callers : sentAs[c] = <<0, 0>>

\* the thread of generation g exists and has not ended
Alive(g) == epc[g] \notin {"none", "dead"}

\* the thread of generation g owns its pipes, its dup of the wakeup receiver
\* and its worker: it has not yet run its finally clause
Owns(g) == epc[g] \in {"start", "poll", "dispatch", "readbody", "except", "finally"}

C20_CleanExitOnClose ==
    [][\A g \in Gens :
          (/\ ~isRunning /\ clientAlive
           /\ wstate[g] = "running"
           /\ pendingRequests[g] # {}
           /\ epc[g] # "except" /\ epc'[g] = "except")
              => Len(respPipe'[g]) < Len(respPipe[g])]_vars

\* C21: the command of a caller that has raised Closed was never dequeued:
\* it was given no request id, is in no table, and no unit of a frame for it
\* is in a request pipe
C21_ClosedNeverEnters ==
    \A c \in Callers :
        cout[c].kind = "closed" =>
            /\ sentAs[c] = <<0, 0>>
            /\ \A g \in Gens : \A e \in pendingRequests[g] : e[2] # c

\* the thread of generation g has nothing left to do in this poll round but
\* to complete a write, which ends in _pingPoller
AtWriteDone(g) ==
    /\ epc[g] = "dispatch" /\ pollres[g] = {"write"}
    /\ dataSender[g].left = 0

\* C22: whenever a caller in invoke or a thread that has completed a write
\* is about to write its wakeup byte to the open wakeup pipe, the write
\* goes through at once: the pipe has room, or the write gives up without
\* blocking
C22_PingNeverBlocks ==
    PingWrites =>
        /\ \A c \in Callers : cpc[c] = "ping" => ENABLED SendCommandPing(c)
        /\ \A g \in Gens : AtWriteDone(g) => ENABLED HandleWriteDone(g)

\* generation g's thread reads a whole well-formed response in this step
ReadsWhole(g) ==
    \E e \in Errcodes : HandleResponse(g, "whole", e) \/ ReadBody(g, "whole", e)

\* C23: a step that reads a whole response whose id has no entry in the
\* thread's table changes no table and no CmdResult, and leaves the thread
\* in its loop
C23_UnknownIdDiscarded ==
    [][\A g \in Gens :
          (/\ ReadsWhole(g)
           /\ \A e \in pendingRequests[g] : e[1] # Head(respPipe[g]))
              => /\ UNCHANGED <<pendingRequests, cres, cout, cpc>>
                 /\ epc'[g] \in {"poll", "dispatch"}
                 /\ exitPath'[g] = exitPath[g]]_vars

\* a request is outstanding in a thread waiting in poll, unsignalled, while
\* the worker holds no request and the response pipe is empty: the response
\* the worker gave for it came under another id and was discarded
C23_Witness ==
    \E g \in Gens :
        /\ epc[g] = "poll" /\ wstate[g] = "running" /\ isRunning
        /\ ~dataSender[g].active
        /\ wreq[g] = {} /\ respPipe[g] = <<>>
        /\ Cardinality(pendingRequests[g]) = 1
        /\ \A e \in pendingRequests[g] : ~cres[e[2]].set /\ cpc[e[2]] = "wait"

\* C24: a thread has one sender at most, and watches the request channel for
\* write-readiness exactly while that sender is active; a wakeup byte read
\* while the sender is active dequeues nothing and leaves the queue, the id
\* counter, the table and the sender as they were
C24_OneWriter ==
    [][/\ \A g \in Gens : pollOut[g] = dataSender[g].active
       /\ \A g \in Gens : pollOut'[g] = dataSender'[g].active
       /\ \A g \in Gens :
              (HandleWakeup(g) /\ dataSender[g].active)
                  => UNCHANGED <<commandQueue, reqId, pendingRequests,
                                 dataSender, pollOut, sentAs>>]_vars

\* a request is half written while another command, whose wakeup byte was
\* written and has been read, still waits in the queue
C24_Witness ==
    \E g \in Gens :
        /\ epc[g] = "dispatch" /\ "wake" \notin pollres[g]
        /\ dataSender[g].active /\ dataSender[g].left > 0
        /\ dataSender[g].left < ReqLen
        /\ commandQueue # <<>>
        /\ \A c \in Callers : cpc[c] = "wait"
        /\ wakeup = 0

\* the worker processes that have been spawned and not reaped
Unreaped == {g \in Gens : wstate[g] \in {"running", "exited"}}

\* C25: at most one worker of the client is unreaped at any time, and at the
\* step that spawns the next worker every earlier one has been killed and
\* waited for
C25_OneWorker ==
    [][/\ Cardinality(Unreaped) <= 1
       /\ Cardinality(Unreaped') <= 1
       /\ \A g \in Gens :
              CommRun(g) =>
                  /\ wstate[g] = "reaped"
                  /\ \A h \in Gens : wstate[h] \in {"none", "reaped"}
                  /\ Unreaped' = {commthread'}]_vars

\* the second worker runs, spawned by the first thread after it reaped its own
C25_Witness ==
    /\ wstate[1] = "reaped" /\ wstate[2] = "running"
    /\ epc[1] = "waitstarted" /\ epc[2] = "poll"

\* the ids held by the tables of all generations
TableIds == UNION {{e[1] : e \in pendingRequests[g]} : g \in Gens}

\* the ids under which the callers' latest requests were dispatched
SentIds == {sentAs[c][2] : c \in Callers} \ {0}

\* C26: the id counter never decreases; a step that enters a request in a
\* table gives it the counter's next value, one more than before, which is at
\* least 1 and above every id in any generation's table and every id a
\* request was dispatched under; no two table entries share an id
C26_IdsIncrease ==
    [][/\ reqId' >= reqId
       /\ \A g \in Gens :
              \A e \in pendingRequests'[g] \ pendingRequests[g] :
                  /\ e[1] = reqId' /\ reqId' = reqId + 1 /\ e[1] >= 1
                  /\ \A i \in TableIds \cup SentIds : i < e[1]
       /\ \A g, h \in Gens :
              \A e \in pendingRequests'[g] : \A f \in pendingRequests'[h] :
                  e[1] = f[1] => (e = f /\ g = h)]_vars

\* the first generation dispatched a request as id 1, the second generation
\* another one as id 2
C26_Witness ==
    \E c, d \in Callers :
        /\ sentAs[c] = <<1, 1>> /\ sentAs[d] = <<2, 2>>
        /\ <<2, d>> \in pendingRequests[2]

\* C27 as stated: the step that puts a command on the queue takes the next
\* id, and the step that takes a command off the queue takes none
C27_IdAllocatedInInvoke ==
    [][/\ Len(commandQueue') > Len(commandQueue) => reqId' = reqId + 1
       /\ Len(commandQueue') < Len(commandQueue) => reqId' = reqId]_vars

\* C27 as the code has it: the step that puts a command on the queue leaves
\* the id counter, the tables and the dispatch records alone; the counter
\* moves only in the thread's wakeup step that takes the oldest command off
\* the queue, and that step enters the command in its table under the new id
C27_IdAllocatedAtDequeue ==
    [][/\ Len(commandQueue') > Len(commandQueue) =>
              /\ reqId' = reqId
              /\ UNCHANGED <<pendingRequests, sentAs, dataSender>>
       /\ Len(commandQueue') < Len(commandQueue) => reqId' = reqId + 1
       /\ reqId' # reqId =>
              \E g \in Gens :
                  /\ HandleWakeup(g)
                  /\ commandQueue' = Tail(commandQueue)
                  /\ reqId' = reqId + 1
                  /\ pendingRequests'[g] \ pendingRequests[g]
                         = {<<reqId', Head(commandQueue)>>}]_vars

\* one command has been dispatched under id 1 while another, put on the
\* queue and announced by its caller, has no id yet
C27_Witness ==
    \E c, d \in Callers :
        /\ sentAs[c] = <<1, 1>> /\ reqId = 1
        /\ commandQueue = <<d>> /\ cpc[d] = "wait"
        /\ sentAs[d] = <<0, 0>>

\* the thread of generation g is inside _run: before the spawn of the next
\* worker, or in _started.wait(wait_until_ready) after starting its thread
InRun(g) == epc[g] \in {"run", "waitstarted"}

\* C28: no thread holds the client's lock while it spawns a process or waits
\* on an event, so a close() finds the lock held only for a flag test
C28_NoLockAcrossSuspension ==
    \A g \in Gens : InRun(g) => lock # g

\* C29: once a worker has been killed and waited for, its stdout and stderr
\* and the thread's copy of the wakeup receiver are closed, so they are
\* closed before the next worker is spawned
C29_AllDescriptorsClosed ==
    \A g \in Gens :
        wstate[g] = "reaped" => (procPipes[g] = "closed" /\ ~evtReciever[g])

\* the ids of the frames the worker of generation g has read or answered
WorkerIds(g) == wreq[g] \cup {respPipe[g][j] : j \in 1 .. Len(respPipe[g])}

\* generation g has nothing of an earlier generation: no table entry, no
\* sender, nothing in its pipes, and the client's partial log line is empty
Fresh(g) ==
    /\ pendingRequests[g] = {} /\ dataSender[g] = NoSender /\ ~pollOut[g]
    /\ respPipe[g] = <<>> /\ reqPipe[g] = <<>> /\ wreq[g] = {}
    /\ partialLogs = <<>>

\* C30: a thread at its start is fresh; every entry of a generation's table
\* whose caller has not returned was serialized for that generation; every
\* frame a worker has read or answered that carries the id of a caller's
\* request is a frame of the generation that request was serialized for; and
\* a step in which a thread delivers a response to a waiting caller delivers
\* it to a request dispatched in its own generation under the id of the
\* frame it read
C30_GenerationsIsolated ==
    [][/\ \A g \in Gens : epc'[g] = "start" => Fresh(g)'
       /\ \A g \in Gens : \A e \in pendingRequests'[g] :
              cpc'[e[2]] = "wait" => sentAs'[e[2]] = <<g, e[1]>>
       /\ \A g \in Gens : \A i \in WorkerIds(g)' : \A c \in Callers :
              sentAs'[c][2] = i => sentAs'[c][1] = g
       /\ \A g \in Gens : \A e \in pendingRequests[g] :
              (/\ Delivers(g, e) /\ cpc[e[2]] = "wait"
               /\ cres'[e[2]].has /\ cres'[e[2]] # CrashResult)
                  => (sentAs[e[2]] = <<g, e[1]>> /\ Head(respPipe[g]) = e[1])]_vars

\* the second generation is at its start with the partial line empty, while
\* the first, which has logged a line and still holds a table entry in its
\* frame, waits for it inside _run
C30_Witness ==
    /\ epc[2] = "start" /\ epc[1] = "waitstarted"
    /\ pendingRequests[1] # {} /\ logRecords # <<>>
    /\ Fresh(2)
    /\ logStream = <<"x", "n", "x">>

\* the number of units generation g's thread writes to its request pipe in
\* this step
Written(g) == Len(reqPipe'[g]) - Len(reqPipe[g])

\* generation g's thread handles the write event of its request pipe with a
\* live worker in this step: one call of DataSender.process
Processes(g) ==
    /\ wstate[g] = "running"
    /\ HandleWriteDone(g) \/ \E n \in 1 .. ReqLen : HandleWrite(g, n)

\* C31 as stated: a call of process writes once and returns True, so that
\* the sender is dropped, exactly when nothing is pending after that write
C31_TrueWhenEmptyAfterWrite ==
    [][\A g \in Gens :
          Processes(g) =>
              /\ Written(g) >= 1
              /\ ~dataSender'[g].active <=> dataSender[g].left - Written(g) = 0]_vars

\* C31 as the code has it: a call of process with units pending writes once,
\* drops the written prefix and returns False, also when the write was the
\* last one, so that the sender stays with nothing pending; a call with
\* nothing pending writes nothing and returns True, and only then is the
\* sender dropped
C31_TrueWhenEmptyBefore ==
    [][\A g \in Gens :
          Processes(g) =>
              IF dataSender[g].left > 0
                 THEN /\ Written(g) >= 1
                      /\ dataSender'[g].active /\ pollOut'[g]
                      /\ dataSender'[g].left = dataSender[g].left - Written(g)
                      /\ SubSeq(reqPipe'[g], Len(reqPipe[g]) + 1, Len(reqPipe'[g]))
                            = SubSeq(DataPending(dataSender[g]), 1, Written(g))
                      /\ DataPending(dataSender'[g])
                            = SubSeq(DataPending(dataSender[g]), Written(g) + 1,
                                     dataSender[g].left)
                 ELSE /\ Written(g) = 0
                      /\ dataSender'[g] = NoSender /\ ~pollOut'[g]]_vars

\* the last units of a frame are written, the worker has the request, and
\* the sender is still there with nothing pending, waiting in poll for the
\* pipe to be writable once more
C31_Witness ==
    \E g \in Gens :
        /\ epc[g] = "poll" /\ wstate[g] = "running"
        /\ dataSender[g].active /\ dataSender[g].left = 0
        /\ pollOut[g]
        /\ reqPipe[g] = Frame(dataSender[g].id)

\* C32: a write that would block leaves the sender with all its pending
\* units and the thread in its loop, and fails no request
C32_WouldBlockIsZeroBytes ==
    [][\A g \in Gens :
          HandleWriteBlocks(g) =>
              /\ dataSender'[g] = dataSender[g]
              /\ InLoop(g)'
              /\ exitPath'[g] # "raise"
              /\ cres' = cres]_vars

\* the byte sequence s holds text of both channels
Mixed(s) ==
    /\ \E j \in 1 .. Len(s) : s[j] = "x"
    /\ \E j \in 1 .. Len(s) : s[j] = "y"

\* C33: no record handed to the log sink, and no partial line kept for the
\* next read, holds bytes of both stdout and stderr
C33_OneChannelPerRecord ==
    /\ \A j \in 1 .. Len(logRecords) : ~Mixed(logRecords[j])
    /\ ~Mixed(partialLogs)

\* C34: a step in which a thread reads log bytes logs, for every complete
\* line of the data (the partial line kept before included), in order, one
\* entry: a warning when the line has fewer than two bars, the line itself
\* for the level dispatch otherwise, the lines after a warning included; the
\* thread stays in its loop and no request is touched
C34_InvalidLineDropped ==
    [][\A g \in Gens, n \in 1 .. MaxLog :
          HandleLogs(g, n) =>
              LET Bars(l) == Cardinality({j \in 1 .. Len(l) : l[j] = "b"})
                  lines == SplitLines(partialLogs \o SubSeq(logIn, 1, n))
                  complete == SelectSeq(lines, LineEnds)
              IN  /\ Len(logSink') = Len(logSink) + Len(complete)
                  /\ SubSeq(logSink', 1, Len(logSink)) = logSink
                  /\ \A j \in 1 .. Len(complete) :
                        logSink'[Len(logSink) + j] =
                            <<IF Bars(complete[j]) >= 2 THEN "sublog" ELSE "warning",
                              Strip(complete[j])>>
                  /\ epc'[g] \in {"poll", "dispatch"}
                  /\ exitPath'[g] = exitPath[g]
                  /\ UNCHANGED <<pendingRequests, cres>>]_vars

\* the line without bars was reported as a warning, the line after it went
\* to the level dispatch, and the thread is in its loop
C34_Witness ==
    /\ logStream = <<"x", "n", "b", "b", "n">>
    /\ logSink = <<<<"warning", <<"x">>>>, <<"sublog", <<"b", "b">>>>>>
    /\ partialLogs = <<>>
    /\ \E g \in Gens : InLoop(g) /\ g = commthread /\ epc[g] = "poll"

\* C35: when a close(sync=True) call has returned, no communication thread
\* of the client is alive
C35_NoThreadAfterSyncClose ==
    \A k \in Closers :
        (clpc[k] = "done" /\ clsync[k]) => \A g \in Gens : ~Alive(g)

====
